---- MODULE Spec2Model ----
(***************************************************************************)
(* Model of the video-compression pipeline's two Lambda handlers:          *)
(*   lambda-functions/completion-handler.py  (Completion Handler)          *)
(*   lambda-functions/MetaDataLogger.py      (Metadata Logger)             *)
(*                                                                         *)
(* Python dicts are functions with string domains, lists are sequences,    *)
(* None is the record None.  A call that may raise returns                 *)
(* [ok |-> TRUE, val |-> v] or [ok |-> FALSE, err |-> str(e)].             *)
(* Floats are kept exact: a size in MB or a ratio rounded to 2 decimals is *)
(* an integer number of hundredths; an unrounded ratio is <<num, den>>.    *)
(***************************************************************************)
EXTENDS Integers, Sequences, FiniteSets, TLC

(* ------------------------------ bounds -------------------------------- *)
MaxDeliveries == 2      \* Completion Handler invocations in one behaviour
MaxOutputs == 1         \* outputs of one MediaConvert job
MaxRecords == 2         \* records the store holds in the Logger specification
MaxCalls == 3           \* direct Logger / auxiliary calls in one behaviour

(* ------------------------- Python conventions ------------------------- *)
None == [type |-> "NoneType"]

Ok(v) == [ok |-> TRUE, val |-> v]

Raise(e) == [ok |-> FALSE, err |-> e]

\* dict.get(k, d)
Get(d, k, default) == IF k \in DOMAIN d THEN d[k] ELSE default

\* str(KeyError(k)) is repr(k)
KeyErrorStr(k) == "'" \o k \o "'"

\* the time datetime.utcnow().isoformat() returns during an invocation
UtcNow == "2024-01-01T00:00:00"

\* n/d rounded to the nearest integer, ties to the even one (Python round()).
RoundHalfEven(n, d) ==
    LET q == n \div d
        r == n % d
    IN  IF 2 * r < d THEN q
        ELSE IF 2 * r > d THEN q + 1
        ELSE IF q % 2 = 0 THEN q ELSE q + 1

BytesPerMB == 1048576

\* round(size / (1024 * 1024), 2), in hundredths of a MB
RoundMB(size) ==
    (size \div BytesPerMB) * 100 + RoundHalfEven((size % BytesPerMB) * 100, BytesPerMB)

RECURSIVE GCD(_, _)
GCD(a, b) == IF b = 0 THEN a ELSE GCD(b, a % b)

\* the number n/d (d > 0) in lowest terms
Ratio(n, d) ==
    LET g == GCD(IF n < 0 THEN 0 - n ELSE n, d)
    IN  <<n \div g, d \div g>>

\* round(ratio, 2), in hundredths; ratio is <<num, den>> with den > 0
RoundRatio(ratio) == RoundHalfEven(ratio[1] * 100, ratio[2])

Digits == <<"0", "1", "2", "3", "4", "5", "6", "7", "8", "9">>

IsDigit(c) == \E i \in 1..10 : Digits[i] = c

DigitVal(c) == (CHOOSE i \in 1..10 : Digits[i] = c) - 1

RECURSIVE DigitsVal(_)
DigitsVal(s) ==
    IF s = <<>> THEN 0
    ELSE DigitsVal(SubSeq(s, 1, Len(s) - 1)) * 10 + DigitVal(s[Len(s)])

\* int(s) for a string s given as its sequence of characters
PyInt(s) ==
    LET signed == s # <<>> /\ s[1] \in {"-", "+"}
        body == IF signed THEN Tail(s) ELSE s
    IN  IF body # <<>> /\ \A i \in 1..Len(body) : IsDigit(body[i])
        THEN Ok(IF signed /\ s[1] = "-" THEN 0 - DigitsVal(body) ELSE DigitsVal(body))
        ELSE Raise("invalid literal for int() with base 10")

(* ========================== Metadata Logger =========================== *)

\* log_completion's fields with the ratio written whenever it is not negative
log_completion_fields_ratio_not_negative(job_info, result) ==
    LET has_files == result.compressed_files # <<>>
        base ==
            ("File Name" :> result.original_file.name)
            @@ ("Original Size (MB)" :> RoundMB(result.original_file.size))
            @@ ("Compressed Size (MB)" :>
                    IF has_files THEN RoundMB(result.compressed_files[1].size) ELSE 0)
            @@ ("Processing Time (minutes)" :> result.processing_time)
            @@ ("Status" :> "Completed")
            @@ ("Original Uploader" :> result.original_file.uploader)
            @@ ("Upload Date" :> UtcNow)
            @@ ("Processing Date" :> Get(job_info.user_metadata, "ProcessingStartTime", UtcNow))
            @@ ("Completion Date" :> UtcNow)
            @@ ("Compressed URL" :> IF has_files THEN result.compressed_files[1].url ELSE "")
            @@ ("Job ID" :> result.job_id)
        compression_ratio == Get(result.compression_stats, "compression_ratio", <<0, 1>>)
    IN  IF DOMAIN result.compression_stats # {} /\ compression_ratio[1] >= 0
        THEN base @@ ("Compression Ratio" :> RoundRatio(compression_ratio))
        ELSE base

\* The 'fields' map log_completion posts (MetaDataLogger.py 100-130).
log_completion_fields(job_info, result) ==
    LET original_size_mb == result.original_file.size
        has_files == result.compressed_files # <<>>
        compressed_size_mb ==
            IF has_files THEN RoundMB(result.compressed_files[1].size) ELSE 0
        compressed_url == IF has_files THEN result.compressed_files[1].url ELSE ""
        base ==
            ("File Name" :> result.original_file.name)
            @@ ("Original Size (MB)" :> RoundMB(original_size_mb))
            @@ ("Compressed Size (MB)" :> compressed_size_mb)
            @@ ("Processing Time (minutes)" :> result.processing_time)
            @@ ("Status" :> "Completed")
            @@ ("Original Uploader" :> result.original_file.uploader)
            @@ ("Upload Date" :> UtcNow)
            @@ ("Processing Date" :> Get(job_info.user_metadata, "ProcessingStartTime", UtcNow))
            @@ ("Completion Date" :> UtcNow)
            @@ ("Compressed URL" :> compressed_url)
            @@ ("Job ID" :> result.job_id)
        stats == result.compression_stats
        compression_ratio == Get(stats, "compression_ratio", <<0, 1>>)
    IN  IF DOMAIN stats # {} /\ compression_ratio[1] > 0
        THEN base @@ ("Compression Ratio" :> RoundRatio(compression_ratio))
        ELSE base

\* log_failure's fields with the error code and message joined by a bare colon
log_failure_fields_bare_colon(failure_info) ==
    ("File Name" :> failure_info.original_file.name)
    @@ ("Original Size (MB)" :> RoundMB(failure_info.original_file.size))
    @@ ("Status" :> "Failed")
    @@ ("Original Uploader" :> failure_info.original_file.uploader)
    @@ ("Upload Date" :> UtcNow)
    @@ ("Processing Date" :> failure_info.timestamp)
    @@ ("Error Message" :> (failure_info.error_code \o ":" \o failure_info.error_message))
    @@ ("Job ID" :> failure_info.job_id)

\* The 'fields' map log_failure posts (MetaDataLogger.py 164-178).
log_failure_fields(failure_info) ==
    ("File Name" :> failure_info.original_file.name)
    @@ ("Original Size (MB)" :> RoundMB(failure_info.original_file.size))
    @@ ("Status" :> "Failed")
    @@ ("Original Uploader" :> failure_info.original_file.uploader)
    @@ ("Upload Date" :> UtcNow)
    @@ ("Processing Date" :> failure_info.timestamp)
    @@ ("Error Message" :> (failure_info.error_code \o ": " \o failure_info.error_message))
    @@ ("Job ID" :> failure_info.job_id)


(* ------------------------- the record store --------------------------- *)
\* A stored record is [id |-> n, fields |-> f]; the server assigns ids.
\* An HTTP call either succeeds ("ok") or ends in an exception raised by
\* requests or by raise_for_status ("error").
HttpOutcomes == {"ok", "error"}

HttpErrorStr == "HTTPError"

Str(s) == [type |-> "str", val |-> s]

Bool(b) == [type |-> "bool", val |-> b]

RecordIds(st) == {st[i].id : i \in 1..Len(st)}

\* indices of the records the server's filter {Job ID}='<job_id>' selects
MatchingIndices(st, job_id) ==
    {i \in 1..Len(st) : "Job ID" \in DOMAIN st[i].fields /\ st[i].fields["Job ID"] = job_id}

\* A call's effect: what it returns or raises, the requests it sent to the
\* store ([method, body]), and the record store after it.
Effect(ret, requests, st) == [ret |-> ret, requests |-> requests, store |-> st]

Post(fields) == [method |-> "POST", body |-> fields]

\* a create that is sent a second time after it succeeded
create_record_twice(fields, st, newId, http) ==
    IF http = "ok"
    THEN Effect(Ok(newId), <<Post(fields), Post(fields)>>,
                st \o <<[id |-> newId, fields |-> fields],
                        [id |-> newId + 1, fields |-> fields]>>)
    ELSE Effect(Raise(HttpErrorStr), <<Post(fields)>>, st)

\* requests.post(...), raise_for_status(), response.json()['id']
\* (MetaDataLogger.py 132-149 and 180-197)
create_record(fields, st, newId, http) ==
    IF http = "ok"
    THEN Effect(Ok(newId), <<Post(fields)>>, Append(st, [id |-> newId, fields |-> fields]))
    ELSE Effect(Raise(HttpErrorStr), <<Post(fields)>>, st)

\* log_completion that looks the job id up first and creates nothing when
\* the store already holds a record of the job
log_completion_if_absent(job_info, result, st, newId, http) ==
    LET lookup == [method |-> "GET", body |-> ("filterByFormula" :> result.job_id)]
        eff == create_record(log_completion_fields(job_info, result), st, newId, http)
        found == MatchingIndices(st, result.job_id)
    IN  IF http = "ok" /\ found # {}
        THEN Effect(Ok(st[CHOOSE i \in found : TRUE].id), <<lookup>>, st)
        ELSE Effect(eff.ret, <<lookup>> \o eff.requests, eff.store)

log_completion(job_info, result, st, newId, http) ==
    create_record(log_completion_fields(job_info, result), st, newId, http)

log_failure(failure_info, st, newId, http) ==
    create_record(log_failure_fields(failure_info), st, newId, http)

Response(code, body) == [statusCode |-> code, body |-> body]

\* The Metadata Logger's lambda_handler (MetaDataLogger.py 36-85):
\* [response, requests, store].
MetaDataLogger_lambda_handler(event, st, newId, http) ==
    LET event_type == Get(event, "type", "completion")
        raised(e, requests) ==
            [response |-> Response(500, [error |-> e]), requests |-> requests, store |-> st]
        logged(msg, eff) ==
            IF eff.ret.ok
            THEN [response |-> Response(200, [message |-> msg, recordId |-> eff.ret.val]),
                  requests |-> eff.requests, store |-> eff.store]
            ELSE raised(eff.ret.err, eff.requests)
    IN  IF event_type = "completion"
        THEN IF "job_info" \notin DOMAIN event THEN raised(KeyErrorStr("job_info"), <<>>)
             ELSE IF "result" \notin DOMAIN event THEN raised(KeyErrorStr("result"), <<>>)
             ELSE logged("Metadata logged successfully",
                         log_completion(event.job_info, event.result, st, newId, http))
        ELSE IF event_type = "failure"
        THEN IF "failure_info" \notin DOMAIN event
             THEN raised(KeyErrorStr("failure_info"), <<>>)
             ELSE logged("Failure logged successfully",
                         log_failure(event.failure_info, st, newId, http))
        ELSE [response |-> None, requests |-> <<>>, store |-> st]

\* update_record (MetaDataLogger.py 200-233): PATCH merges the given fields
\* into the record; any failure is re-raised.
update_record(record_id, fields, st, http) ==
    IF http = "ok" /\ record_id \in RecordIds(st)
    THEN LET i == CHOOSE k \in 1..Len(st) : st[k].id = record_id
             merged == fields @@ st[i].fields
         IN  Effect(Ok([id |-> record_id, fields |-> merged]), <<>>,
                    [st EXCEPT ![i].fields = merged])
    ELSE Effect(Raise(HttpErrorStr), <<>>, st)

\* find_record_by_job_id that lets a failed request propagate
find_record_by_job_id_raising(job_id, st, http) ==
    IF http = "ok"
    THEN LET records == MatchingIndices(st, job_id)
         IN  IF records # {}
             THEN Effect(Ok(Str(st[CHOOSE i \in records : \A k \in records : i <= k].id)),
                         <<>>, st)
             ELSE Effect(Ok(None), <<>>, st)
    ELSE Effect(Raise(HttpErrorStr), <<>>, st)

\* find_record_by_job_id (MetaDataLogger.py 236-272)
find_record_by_job_id(job_id, st, http) ==
    IF http = "ok"
    THEN LET records == MatchingIndices(st, job_id)
         IN  IF records # {}
             THEN Effect(Ok(Str(st[CHOOSE i \in records : \A k \in records : i <= k].id)),
                         <<>>, st)
             ELSE Effect(Ok(None), <<>>, st)
    ELSE Effect(Ok(None), <<>>, st)

\* delete_record (MetaDataLogger.py 275-301)
delete_record(record_id, st, http) ==
    IF http = "ok" /\ record_id \in RecordIds(st)
    THEN LET i == CHOOSE k \in 1..Len(st) : st[k].id = record_id
         IN  Effect(Ok(Bool(TRUE)), <<>>,
                    SubSeq(st, 1, i - 1) \o SubSeq(st, i + 1, Len(st)))
    ELSE Effect(Ok(Bool(FALSE)), <<>>, st)


(* ========================= Completion Handler ========================= *)

EmptyDict == <<>>

\* parse_mediaconvert_event with a default in place of the required jobId
parse_mediaconvert_event_default_job_id(event) ==
    LET invalid(k) == Raise("Invalid MediaConvert event format: " \o KeyErrorStr(k))
    IN  IF "detail" \notin DOMAIN event THEN invalid("detail")
        ELSE IF "status" \notin DOMAIN event.detail THEN invalid("status")
        ELSE IF "time" \notin DOMAIN event THEN invalid("time")
        ELSE Ok([job_id |-> Get(event.detail, "jobId", "unknown"),
                 status |-> event.detail.status,
                 timestamp |-> event.time,
                 user_metadata |-> Get(event.detail, "userMetadata", EmptyDict),
                 output_group_details |-> Get(event.detail, "outputGroupDetails", <<>>)])

\* parse_mediaconvert_event (completion-handler.py 100-123)
parse_mediaconvert_event(event) ==
    LET invalid(k) == Raise("Invalid MediaConvert event format: " \o KeyErrorStr(k))
    IN  IF "detail" \notin DOMAIN event THEN invalid("detail")
        ELSE IF "jobId" \notin DOMAIN event.detail THEN invalid("jobId")
        ELSE IF "status" \notin DOMAIN event.detail THEN invalid("status")
        ELSE IF "time" \notin DOMAIN event THEN invalid("time")
        ELSE Ok([job_id |-> event.detail.jobId,
                 status |-> event.detail.status,
                 timestamp |-> event.time,
                 user_metadata |-> Get(event.detail, "userMetadata", EmptyDict),
                 output_group_details |-> Get(event.detail, "outputGroupDetails", <<>>)])

\* the inner loop of completion-handler.py 149-154
OutputFilesOfGroup(output_group) ==
    [k \in 1..Len(output_group.Outputs) |->
        [destination |-> output_group.OutputGroupSettings.FileGroupSettings.Destination,
         name_modifier |-> Get(output_group.Outputs[k], "NameModifier", "")]]

\* the outer loop of completion-handler.py 145-154
RECURSIVE OutputFiles(_)
OutputFiles(output_groups) ==
    IF output_groups = <<>> THEN <<>>
    ELSE OutputFilesOfGroup(Head(output_groups)) \o OutputFiles(Tail(output_groups))

\* 'original_file' of a result or a failure record
\* (completion-handler.py 161-165 and 215-219); int() may raise.
original_file(job_info) ==
    LET size == IF "OriginalSize" \in DOMAIN job_info.user_metadata
                THEN PyInt(job_info.user_metadata["OriginalSize"])
                ELSE Ok(0)
    IN  IF size.ok
        THEN Ok([name |-> Get(job_info.user_metadata, "OriginalFileName", "unknown"),
                 size |-> size.val,
                 uploader |-> Get(job_info.user_metadata, "Uploader", "unknown")])
        ELSE size

\* calculate_processing_time: the minutes the job details report.
calculate_processing_time(job_details) == job_details.ProcessingMinutes

\* The result handle_successful_completion builds before it collects the
\* sizes (completion-handler.py 157-168).
initial_result(job_info, job_details) ==
    LET file == original_file(job_info)
    IN  IF file.ok
        THEN Ok([job_id |-> job_info.job_id,
                 status |-> "completed",
                 processing_time |-> calculate_processing_time(job_details),
                 original_file |-> file.val,
                 compressed_files |-> <<>>,
                 compression_stats |-> EmptyDict])
        ELSE file

\* get_compressed_file_info once the storage service has reported the size
compressed_file_info(output_file, size) ==
    [destination |-> output_file.destination,
     name_modifier |-> output_file.name_modifier,
     size |-> size,
     url |-> output_file.destination \o output_file.name_modifier]

\* calculate_compression_stats: ratio = 1 - compressed/original, only when a
\* compressed output exists and both sizes are positive.
calculate_compression_stats(result) ==
    LET original == result.original_file.size
        compressed == IF result.compressed_files = <<>> THEN 0
                      ELSE result.compressed_files[1].size
    IN  IF result.compressed_files # <<>> /\ original > 0 /\ compressed > 0
        THEN ("compression_ratio" :> Ratio(original - compressed, original))
        ELSE EmptyDict

\* a failure record whose two defaults are exchanged
failure_record_defaults_exchanged(job_info, job_details) ==
    LET file == original_file(job_info)
    IN  IF file.ok
        THEN Ok([job_id |-> job_info.job_id,
                 status |-> "failed",
                 error_message |-> Get(job_details, "ErrorMessage", "UNKNOWN"),
                 error_code |-> Get(job_details, "ErrorCode", "Unknown error"),
                 original_file |-> file.val,
                 timestamp |-> job_info.timestamp])
        ELSE file

\* The failure record handle_failed_completion builds
\* (completion-handler.py 205-221).
failure_record(job_info, job_details) ==
    LET file == original_file(job_info)
    IN  IF file.ok
        THEN Ok([job_id |-> job_info.job_id,
                 status |-> "failed",
                 error_message |-> Get(job_details, "ErrorMessage", "Unknown error"),
                 error_code |-> Get(job_details, "ErrorCode", "UNKNOWN"),
                 original_file |-> file.val,
                 timestamp |-> job_info.timestamp])
        ELSE file

\* the envelopes the Completion Handler sends to the Metadata Logger
completion_envelope(job_info, result) ==
    ("type" :> "completion") @@ ("job_info" :> job_info) @@ ("result" :> result)

failure_envelope(failure_info) ==
    ("type" :> "failure") @@ ("failure_info" :> failure_info)

\* an except clause that notifies and then re-raises
lambda_handler_except_reraise(e) ==
    [outcome |-> "raised", response |-> None]

\* How lambda_handler ends when an exception reaches its except clause
\* (completion-handler.py 88-97).
lambda_handler_except(e) ==
    [outcome |-> "returned", response |-> Response(500, [error |-> e])]

\* lambda_handler's return after the COMPLETE branch (completion-handler.py 67-74)
completed_response(job_info, result) ==
    Response(200, [message |-> "Job completed successfully",
                   jobId |-> job_info.job_id, result |-> result])

\* lambda_handler's return after the ERROR branch (completion-handler.py 80-86)
failed_response(job_info) ==
    Response(200, [message |-> "Job failed, error handled", jobId |-> job_info.job_id])

\* Where lambda_handler goes after parsing (completion-handler.py 57, 76):
\* no branch is taken for any other status and the function falls off its end.
branch_on_status(status) ==
    IF status = "COMPLETE" THEN "get_job"
    ELSE IF status = "ERROR" THEN "failed_get_job"
    ELSE "fall_through"


(* ------------------------ inputs of the model ------------------------- *)
JobIds == {"job-1", "job-2"}

Statuses == {"COMPLETE", "ERROR", "CANCELED"}

EventTime == "2024-01-01T00:05:00"

Chars104857600 == <<"1", "0", "4", "8", "5", "7", "6", "0", "0">>

FullMetadata ==
    [OriginalFileName |-> "clip.mp4", OriginalSize |-> Chars104857600, Uploader |-> "sam"]

BadSizeMetadata ==
    [OriginalFileName |-> "clip.mp4", OriginalSize |-> <<"1", "e", "6">>, Uploader |-> "sam"]

WellFormedEvents ==
    {[detail |-> [jobId |-> j, status |-> s, userMetadata |-> um], time |-> EventTime] :
        j \in JobIds, s \in Statuses, um \in {FullMetadata, BadSizeMetadata}}
    \cup {[detail |-> [jobId |-> j, status |-> s], time |-> EventTime] :
        j \in JobIds, s \in {"COMPLETE", "ERROR"}}

MalformedEvents ==
    {[time |-> EventTime],
     [detail |-> [status |-> "COMPLETE"], time |-> EventTime],
     [detail |-> [jobId |-> "job-1"], time |-> EventTime],
     [detail |-> [jobId |-> "job-1", status |-> "COMPLETE"]]}

Events == WellFormedEvents \cup MalformedEvents

\* what mediaconvert get_job answers: one output group with n outputs
JobDetails(n) ==
    [Settings |-> [OutputGroups |->
        <<[OutputGroupSettings |-> [FileGroupSettings |-> [Destination |-> "s3://compressed/clip"]],
           Outputs |-> [k \in 1..n |->
                IF k = 1 THEN [NameModifier |-> "_720p"] ELSE [Preset |-> "generic"]]]>>],
     ProcessingMinutes |-> 5]

CompletedJobs == {JobDetails(n) : n \in 0..MaxOutputs}

FailedJobs ==
    {JobDetails(0),
     JobDetails(0) @@ ("ErrorCode" :> "1010") @@ ("ErrorMessage" :> "Unsupported codec")}

\* sizes the storage service reports for an output
OutputSizes == {0, 41943040}

\* str(e) of the exceptions the services raise
ServiceErrorStr(call) == call \o " failed"

(* ------------------------------- state -------------------------------- *)
VARIABLES
    chPc,        \* where the Completion Handler's invocation stands
    chEvent,     \* the event of the invocation
    chJobInfo,   \* parse_mediaconvert_event's result
    chJob,       \* the job details get_job returned
    chOutputs,   \* output files whose size is still to be fetched
    chResult,    \* the result or failure record being built
    chErr,       \* str(e) of the exception on its way to the except clause
    chTrace,     \* the calls of this invocation, in order: [call, ok]
    chOutcome,   \* how the invocation ended: [outcome, response]
    deliveries,  \* Completion Handler invocations so far
    okCount,     \* per job id: deliveries in which every downstream call succeeded
    store,       \* the record store: sequence of [id, fields]
    nextId,      \* the id the store assigns next
    mlEvent,     \* the envelope of the last Metadata Logger invocation
    mlResponse,  \* what that invocation returned
    mlRequests,  \* the requests that invocation sent to the store
    last,        \* the last direct call of the Logger module: [op, ...]
    calls        \* direct calls so far

chVars == <<chPc, chEvent, chJobInfo, chJob, chOutputs, chResult, chErr, chTrace, chOutcome,
            deliveries, okCount>>

mlVars == <<store, nextId, mlEvent, mlResponse, mlRequests>>

vars == <<chVars, mlVars, last, calls>>

Init ==
    /\ chPc = "idle"
    /\ chEvent = None
    /\ chJobInfo = None
    /\ chJob = None
    /\ chOutputs = <<>>
    /\ chResult = None
    /\ chErr = ""
    /\ chTrace = <<>>
    /\ chOutcome = None
    /\ deliveries = 0
    /\ okCount = [j \in JobIds |-> 0]
    /\ store = <<>>
    /\ nextId = 1
    /\ mlEvent = None
    /\ mlResponse = None
    /\ mlRequests = <<>>
    /\ last = [op |-> "none"]
    /\ calls = 0

Called(call, ok) == [call |-> call, ok |-> ok]

\* an exception leaves the try block of lambda_handler
Propagate(e) ==
    /\ chPc' = "except"
    /\ chErr' = e


(* ------------------- Completion Handler: the actions ------------------ *)

\* lambda_handler is invoked with an event and parses it
\* (completion-handler.py 51-57, 76).
CH_Receive(event) ==
    /\ chPc = "idle"
    /\ deliveries < MaxDeliveries
    /\ LET parsed == parse_mediaconvert_event(event)
       IN  /\ chEvent' = event
           /\ chTrace' = <<>>
           /\ chJob' = None
           /\ chOutputs' = <<>>
           /\ chResult' = None
           /\ chOutcome' = None
           /\ IF parsed.ok
              THEN /\ chJobInfo' = parsed.val
                   /\ chPc' = branch_on_status(parsed.val.status)
                   /\ chErr' = ""
              ELSE /\ chJobInfo' = None
                   /\ Propagate(parsed.err)
    /\ mlEvent' = None
    /\ mlResponse' = None
    /\ mlRequests' = <<>>
    /\ UNCHANGED <<deliveries, okCount, store, nextId, last, calls>>

\* Neither branch matched: lambda_handler ends without a return statement.
CH_FallThrough ==
    /\ chPc = "fall_through"
    /\ chOutcome' = [outcome |-> "returned", response |-> None]
    /\ chPc' = "return"
    /\ UNCHANGED <<chEvent, chJobInfo, chJob, chOutputs, chResult, chErr, chTrace, deliveries,
                   okCount, mlVars, last, calls>>

\* handle_successful_completion up to the result skeleton
\* (completion-handler.py 136-168).
CH_GetJob(ok, job_details) ==
    /\ chPc = "get_job"
    /\ chTrace' = Append(chTrace, Called("get_job", ok))
    /\ chJob' = IF ok THEN job_details ELSE chJob
    /\ IF ~ok
       THEN Propagate(ServiceErrorStr("get_job")) /\ UNCHANGED <<chOutputs, chResult>>
       ELSE LET result == initial_result(chJobInfo, job_details)
                output_files == OutputFiles(job_details.Settings.OutputGroups)
            IN  IF result.ok
                THEN /\ chResult' = result.val
                     /\ chOutputs' = output_files
                     /\ chPc' = IF output_files = <<>> THEN "stats" ELSE "sizes"
                     /\ chErr' = chErr
                ELSE Propagate(result.err) /\ UNCHANGED <<chOutputs, chResult>>
    /\ UNCHANGED <<chEvent, chJobInfo, chOutcome, deliveries, okCount, mlVars, last, calls>>

\* one iteration of the loop over output_files (completion-handler.py 171-173)
CH_GetCompressedFileInfo(ok, size) ==
    /\ chPc = "sizes"
    /\ chTrace' = Append(chTrace, Called("get_compressed_file_info", ok))
    /\ IF ok
       THEN /\ chResult' = [chResult EXCEPT !.compressed_files =
                                Append(@, compressed_file_info(Head(chOutputs), size))]
            /\ chOutputs' = Tail(chOutputs)
            /\ chPc' = IF Tail(chOutputs) = <<>> THEN "stats" ELSE "sizes"
            /\ chErr' = chErr
       ELSE Propagate(ServiceErrorStr("get_compressed_file_info"))
            /\ UNCHANGED <<chOutputs, chResult>>
    /\ UNCHANGED <<chEvent, chJobInfo, chJob, chOutcome, deliveries, okCount, mlVars, last, calls>>

\* completion-handler.py 176
CH_CalculateStats ==
    /\ chPc = "stats"
    /\ chTrace' = Append(chTrace, Called("calculate_compression_stats", TRUE))
    /\ chResult' = [chResult EXCEPT !.compression_stats = calculate_compression_stats(chResult)]
    /\ chPc' = "cleanup"
    /\ UNCHANGED <<chEvent, chJobInfo, chJob, chOutputs, chErr, chOutcome, deliveries, okCount,
                   mlVars, last, calls>>

\* a cleanup whose failure is logged and swallowed
CH_Cleanup_swallowed(ok) ==
    /\ chPc = "cleanup"
    /\ chTrace' = Append(chTrace, Called("cleanup_temp_files", ok))
    /\ chPc' = "notify"
    /\ UNCHANGED <<chEvent, chJobInfo, chJob, chOutputs, chResult, chErr, chOutcome, deliveries,
                   okCount, mlVars, last, calls>>

\* completion-handler.py 179-187
CH_Cleanup(ok) ==
    /\ chPc = "cleanup"
    /\ chTrace' = Append(chTrace, Called("cleanup_temp_files", ok))
    /\ IF ok THEN chPc' = "notify" /\ chErr' = chErr
       ELSE Propagate(ServiceErrorStr("cleanup_temp_files"))
    /\ UNCHANGED <<chEvent, chJobInfo, chJob, chOutputs, chResult, chOutcome, deliveries, okCount,
                   mlVars, last, calls>>

\* completion-handler.py 62
CH_SendCompletionNotification(ok) ==
    /\ chPc = "notify"
    /\ chTrace' = Append(chTrace, Called("publish_success", ok))
    /\ IF ok THEN chPc' = "log" /\ chErr' = chErr
       ELSE Propagate(ServiceErrorStr("publish_success"))
    /\ UNCHANGED <<chEvent, chJobInfo, chJob, chOutputs, chResult, chOutcome, deliveries, okCount,
                   mlVars, last, calls>>

\* The Completion Handler invokes the Metadata Logger with an envelope and
\* waits for it; the invocation itself may fail, and then the Logger does
\* not run.  What the Logger returns is not inspected.
InvokeLogger(call, envelope, invoked, http, response) ==
    /\ chTrace' = Append(chTrace, Called(call, invoked))
    /\ IF invoked
       THEN LET ml == MetaDataLogger_lambda_handler(envelope, store, nextId, http)
            IN  /\ mlEvent' = envelope
                /\ mlResponse' = ml.response
                /\ mlRequests' = ml.requests
                /\ store' = ml.store
                /\ nextId' = IF Len(ml.store) > Len(store) THEN nextId + 1 ELSE nextId
                /\ okCount' = IF ml.response # None /\ ml.response.statusCode = 200
                              THEN [okCount EXCEPT ![chJobInfo.job_id] = @ + 1]
                              ELSE okCount
                /\ chOutcome' = [outcome |-> "returned", response |-> response]
                /\ chPc' = "return"
                /\ chErr' = chErr
       ELSE /\ Propagate(ServiceErrorStr(call))
            /\ UNCHANGED <<mlVars, okCount, chOutcome>>

\* completion-handler.py 65-74
CH_LogMetadata(invoked, http) ==
    /\ chPc = "log"
    /\ InvokeLogger("invoke_logger_completion", completion_envelope(chJobInfo, chResult),
                    invoked, http, completed_response(chJobInfo, chResult))
    /\ UNCHANGED <<chEvent, chJobInfo, chJob, chOutputs, chResult, deliveries, last, calls>>

\* handle_failed_completion up to the failure record (completion-handler.py 197-221)
CH_FailedGetJob(ok, job_details) ==
    /\ chPc = "failed_get_job"
    /\ chTrace' = Append(chTrace, Called("get_job", ok))
    /\ chJob' = IF ok THEN job_details ELSE chJob
    /\ IF ~ok
       THEN Propagate(ServiceErrorStr("get_job")) /\ UNCHANGED chResult
       ELSE LET failure_info == failure_record(chJobInfo, job_details)
            IN  IF failure_info.ok
                THEN chResult' = failure_info.val /\ chPc' = "failed_notify" /\ chErr' = chErr
                ELSE Propagate(failure_info.err) /\ UNCHANGED chResult
    /\ UNCHANGED <<chEvent, chJobInfo, chOutputs, chOutcome, deliveries, okCount, mlVars,
                   last, calls>>

\* handle_failed_completion publishes the failure notification
CH_SendFailureNotification(ok) ==
    /\ chPc = "failed_notify"
    /\ chTrace' = Append(chTrace, Called("publish_failure", ok))
    /\ IF ok THEN chPc' = "failed_log" /\ chErr' = chErr
       ELSE Propagate(ServiceErrorStr("publish_failure"))
    /\ UNCHANGED <<chEvent, chJobInfo, chJob, chOutputs, chResult, chOutcome, deliveries, okCount,
                   mlVars, last, calls>>

\* handle_failed_completion calls the Metadata Logger; lambda_handler then
\* returns (completion-handler.py 78-86)
CH_LogFailure(invoked, http) ==
    /\ chPc = "failed_log"
    /\ InvokeLogger("invoke_logger_failure", failure_envelope(chResult),
                    invoked, http, failed_response(chJobInfo))
    /\ UNCHANGED <<chEvent, chJobInfo, chJob, chOutputs, chResult, deliveries, last, calls>>

\* lambda_handler's except clause (completion-handler.py 88-97); the error
\* notification is best effort: whether its publish succeeds changes nothing.
CH_Except(ok) ==
    /\ chPc = "except"
    /\ chTrace' = Append(chTrace, Called("publish_handler_error", ok))
    /\ chOutcome' = lambda_handler_except(chErr)
    /\ chPc' = "return"
    /\ UNCHANGED <<chEvent, chJobInfo, chJob, chOutputs, chResult, chErr, deliveries, okCount,
                   mlVars, last, calls>>

\* the invocation is over; the next event may be delivered
CH_Return ==
    /\ chPc = "return"
    /\ chPc' = "idle"
    /\ deliveries' = deliveries + 1
    /\ UNCHANGED <<chEvent, chJobInfo, chJob, chOutputs, chResult, chErr, chTrace, chOutcome,
                   okCount, mlVars, last, calls>>

Next ==
    \/ \E event \in Events : CH_Receive(event)
    \/ CH_FallThrough
    \/ \E ok \in BOOLEAN, job_details \in CompletedJobs : CH_GetJob(ok, job_details)
    \/ \E ok \in BOOLEAN, size \in OutputSizes : CH_GetCompressedFileInfo(ok, size)
    \/ CH_CalculateStats
    \/ \E ok \in BOOLEAN : CH_Cleanup(ok)
    \/ \E ok \in BOOLEAN : CH_SendCompletionNotification(ok)
    \/ \E invoked \in BOOLEAN, http \in HttpOutcomes : CH_LogMetadata(invoked, http)
    \/ \E ok \in BOOLEAN, job_details \in FailedJobs : CH_FailedGetJob(ok, job_details)
    \/ \E ok \in BOOLEAN : CH_SendFailureNotification(ok)
    \/ \E invoked \in BOOLEAN, http \in HttpOutcomes : CH_LogFailure(invoked, http)
    \/ \E ok \in BOOLEAN : CH_Except(ok)
    \/ CH_Return

Spec == Init /\ [][Next]_vars


(* -------------- the Metadata Logger module called directly ------------ *)
\* Any caller may invoke the Logger or call its auxiliary operations.

CompressedFile(size) ==
    [destination |-> "s3://compressed/clip", name_modifier |-> "_720p", size |-> size,
     url |-> "s3://compressed/clip_720p"]

CallerRatios == {Ratio(3, 5), Ratio(0, 1), Ratio(0 - 1, 2)}

CallerResults ==
    {[job_id |-> "job-1", status |-> "completed", processing_time |-> 5,
      original_file |-> [name |-> "clip.mp4", size |-> 104857600, uploader |-> "sam"],
      compressed_files |-> files, compression_stats |-> stats] :
        files \in {<<>>, <<CompressedFile(41943040)>>},
        stats \in {EmptyDict} \cup {("compression_ratio" :> r) : r \in CallerRatios}}

CallerJobInfo(um) ==
    [job_id |-> "job-1", status |-> "COMPLETE", timestamp |-> EventTime,
     user_metadata |-> um, output_group_details |-> <<>>]

CallerFailures ==
    {[job_id |-> j, status |-> "failed", error_message |-> e[2], error_code |-> e[1],
      original_file |-> [name |-> "clip.mp4", size |-> 131072, uploader |-> "sam"],
      timestamp |-> EventTime] :
        j \in JobIds, e \in {<<"1010", "Unsupported codec">>, <<"UNKNOWN", "Unknown error">>}}

Envelopes ==
    {completion_envelope(CallerJobInfo(FullMetadata), r) : r \in CallerResults}
    \cup {failure_envelope(f) : f \in CallerFailures}
    \cup {("job_info" :> CallerJobInfo([ProcessingStartTime |-> "2024-01-01T00:01:00"]))
            @@ ("result" :> r) : r \in {x \in CallerResults : x.compression_stats = EmptyDict}}
    \cup {("type" :> "completion") @@ ("job_info" :> CallerJobInfo(FullMetadata)),
          ("type" :> "failure"), ("type" :> "progress")}

\* job ids a caller looks up: those of the pipeline and one never logged
LookupJobIds == JobIds \cup {"job-9"}

UpdateFields == {("Status" :> "Archived"), ("Job ID" :> "job-2")}

\* ids a caller may pass: every id the store can have assigned, and ids it has not
CallerRecordIds == 1..MaxCalls

\* lambda_handler of the Metadata Logger, invoked by any caller
ML_Invoke(event, http) ==
    /\ chPc = "idle"
    /\ calls < MaxCalls
    /\ Len(store) < MaxRecords
    /\ LET ml == MetaDataLogger_lambda_handler(event, store, nextId, http)
       IN  /\ mlEvent' = event
           /\ mlResponse' = ml.response
           /\ mlRequests' = ml.requests
           /\ store' = ml.store
           /\ nextId' = IF Len(ml.store) > Len(store) THEN nextId + 1 ELSE nextId
    /\ last' = [op |-> "invoke"]
    /\ calls' = calls + 1
    /\ UNCHANGED chVars

ML_UpdateRecord(record_id, fields, http) ==
    /\ chPc = "idle"
    /\ calls < MaxCalls
    /\ LET eff == update_record(record_id, fields, store, http)
       IN  /\ store' = eff.store
           /\ last' = [op |-> "update", record_id |-> record_id, http |-> http,
                       raised |-> ~eff.ret.ok, before |-> store]
    /\ calls' = calls + 1
    /\ UNCHANGED <<chVars, nextId, mlEvent, mlResponse, mlRequests>>

ML_FindRecordByJobId(job_id, http) ==
    /\ chPc = "idle"
    /\ calls < MaxCalls
    /\ LET eff == find_record_by_job_id(job_id, store, http)
       IN  /\ store' = eff.store
           /\ last' = [op |-> "find", job_id |-> job_id, http |-> http,
                       raised |-> ~eff.ret.ok,
                       found |-> IF eff.ret.ok THEN eff.ret.val ELSE None]
    /\ calls' = calls + 1
    /\ UNCHANGED <<chVars, nextId, mlEvent, mlResponse, mlRequests>>

ML_DeleteRecord(record_id, http) ==
    /\ chPc = "idle"
    /\ calls < MaxCalls
    /\ LET eff == delete_record(record_id, store, http)
       IN  /\ store' = eff.store
           /\ last' = [op |-> "delete", record_id |-> record_id, http |-> http,
                       raised |-> ~eff.ret.ok,
                       deleted |-> IF eff.ret.ok THEN eff.ret.val ELSE None,
                       before |-> store]
    /\ calls' = calls + 1
    /\ UNCHANGED <<chVars, nextId, mlEvent, mlResponse, mlRequests>>

NextLogger ==
    \/ \E event \in Envelopes, http \in HttpOutcomes : ML_Invoke(event, http)
    \/ \E id \in CallerRecordIds, f \in UpdateFields, http \in HttpOutcomes : ML_UpdateRecord(id, f, http)
    \/ \E job_id \in LookupJobIds, http \in HttpOutcomes : ML_FindRecordByJobId(job_id, http)
    \/ \E id \in CallerRecordIds, http \in HttpOutcomes : ML_DeleteRecord(id, http)

SpecLogger == Init /\ [][NextLogger]_vars


(* ============================== claims ================================ *)

\* a response object {statusCode: 200|500, body: {message|error, ...}}
IsResponse(r) ==
    /\ "statusCode" \in DOMAIN r
    /\ r.statusCode \in {200, 500}
    /\ "body" \in DOMAIN r
    /\ ("message" \in DOMAIN r.body \/ "error" \in DOMAIN r.body)

Returned == chPc = "return"

LacksJobId(event) == "detail" \notin DOMAIN event \/ "jobId" \notin DOMAIN event.detail

TraceCalls == {chTrace[i].call : i \in 1..Len(chTrace)}

LoggerCalls == {"invoke_logger_completion", "invoke_logger_failure"}

\* every call of the invocation succeeded, the Logger's store request included
AllCallsSucceeded ==
    /\ \A i \in 1..Len(chTrace) : chTrace[i].ok
    /\ mlEvent # None
    /\ mlResponse # None
    /\ mlResponse.statusCode = 200

\* C1: every invocation of either handler returns a response object whose
\* statusCode is 200 or 500 and whose body carries a message or an error,
\* whatever detail.status or the envelope's type is.
C1_ResponseShape ==
    /\ Returned => chOutcome.outcome = "returned" /\ IsResponse(chOutcome.response)
    /\ mlEvent # None => IsResponse(mlResponse)

\* C2: an event without detail.jobId ends in statusCode 500 with a non-empty
\* error string, and during that invocation the Metadata Logger is not
\* invoked and no create request reaches the record store.
C2_MissingJobId ==
    (chEvent # None /\ LacksJobId(chEvent)) =>
        /\ mlEvent = None
        /\ mlRequests = <<>>
        /\ TraceCalls \cap LoggerCalls = {}
        /\ Returned =>
            /\ chOutcome.outcome = "returned"
            /\ chOutcome.response.statusCode = 500
            /\ "error" \in DOMAIN chOutcome.response.body
            /\ chOutcome.response.body.error # ""

C2_Witness ==
    /\ Returned
    /\ chEvent # None
    /\ "detail" \in DOMAIN chEvent
    /\ "jobId" \notin DOMAIN chEvent.detail
    /\ chOutcome.response.statusCode = 500
    /\ chOutcome.response.body.error = "Invalid MediaConvert event format: 'jobId'"

\* the failed calls of the invocation, the error notification aside
FailedCalls ==
    {i \in 1..Len(chTrace) : ~chTrace[i].ok /\ chTrace[i].call # "publish_handler_error"}

\* C3: when a step of the Completion Handler fails, the exception is caught
\* at the top level, an error notification is attempted and the invocation
\* returns statusCode 500 with the failure as the body's error string; no
\* invocation ends by raising.
C3_FailuresReturn500 ==
    Returned =>
        /\ chOutcome.outcome = "returned"
        /\ (FailedCalls # {} \/ chErr # "") =>
            /\ chOutcome.response.statusCode = 500
            /\ "error" \in DOMAIN chOutcome.response.body
            /\ chOutcome.response.body.error = chErr
            /\ chErr # ""
            /\ chTrace # <<>>
            /\ chTrace[Len(chTrace)].call = "publish_handler_error"
        /\ \A i \in FailedCalls :
            /\ i = Len(chTrace) - 1
            /\ chOutcome.response.body.error = ServiceErrorStr(chTrace[i].call)

C3_Witness ==
    /\ Returned
    /\ \E i \in FailedCalls : chTrace[i].call = "cleanup_temp_files"
    /\ chOutcome.response = Response(500, [error |-> "cleanup_temp_files failed"])


RecordsOfJob(job_id) == {store[i].id : i \in MatchingIndices(store, job_id)}

\* C4: a completion event delivered twice, every call succeeding both times,
\* leaves two distinct records of that job id in the store: each such
\* delivery adds a record, and the Logger sends the store nothing but the
\* create request (no lookup, no existence check).
C4_RedeliveryDuplicates ==
    /\ \A j \in JobIds : Cardinality(RecordsOfJob(j)) = okCount[j]
    /\ \A i \in 1..Len(mlRequests) : mlRequests[i].method = "POST"

C4_Witness ==
    \E j \in JobIds :
        /\ okCount[j] = 2
        /\ \E i, k \in MatchingIndices(store, j) :
            /\ i # k
            /\ store[i].id # store[k].id
            /\ store[i].fields = store[k].fields
            /\ store[i].fields["Status"] = "Completed"

\* the records the store held before the step are still there, unchanged
RecordsKept ==
    /\ Len(store') >= Len(store)
    /\ \A i \in 1..Len(store) : store'[i] = store[i]

\* C5: a single delivery of a COMPLETE or ERROR event in which every call
\* succeeds creates exactly one record of that job id: the Logger sends
\* exactly one create request, and no step of either handler changes or
\* removes a record once it is in the store.
C5_LoggedExactlyOnce ==
    /\ [](/\ Len(mlRequests) <= 1
          /\ (mlEvent # None /\ mlResponse # None /\ mlResponse.statusCode = 200) =>
                /\ Len(mlRequests) = 1
                /\ mlRequests[1].method = "POST"
                /\ \E i \in 1..Len(store) :
                    /\ store[i].id = mlResponse.body.recordId
                    /\ store[i].fields = mlRequests[1].body
          /\ (Returned /\ deliveries = 0 /\ AllCallsSucceeded) =>
                /\ chJobInfo.status \in {"COMPLETE", "ERROR"}
                /\ Len(store) = 1
                /\ Cardinality(RecordsOfJob(chJobInfo.job_id)) = 1)
    /\ [][RecordsKept]_vars

C5_Witness ==
    /\ Returned
    /\ deliveries = 0
    /\ AllCallsSucceeded
    /\ chJobInfo.status = "COMPLETE"
    /\ Len(mlRequests) = 1
    /\ Cardinality(RecordsOfJob(chJobInfo.job_id)) = 1


\* the successful call of that name, if any, comes before position i
SucceededBefore(call, i) == \E k \in 1..(i - 1) : chTrace[k].call = call /\ chTrace[k].ok

\* The calls of the trace follow the given order: a call comes after every
\* call that precedes it in 'order', each of which succeeded, unless it is one
\* the list marks optional; only a 'repeated' call occurs more than once.
FollowsOrder(order, optional, repeated) ==
    LET Rank(call) == CHOOSE r \in 1..Len(order) : order[r] = call
    IN  /\ TraceCalls \subseteq {order[r] : r \in 1..Len(order)}
        /\ \A i, k \in 1..Len(chTrace) :
             i < k => \/ Rank(chTrace[i].call) < Rank(chTrace[k].call)
                      \/ /\ chTrace[i].call = chTrace[k].call
                         /\ chTrace[i].call \in repeated
        /\ \A i \in 1..Len(chTrace) :
             chTrace[i].call # "publish_handler_error" =>
                \A r \in 1..(Rank(chTrace[i].call) - 1) :
                    order[r] \in optional \/ SucceededBefore(order[r], i)
        /\ \A i \in 1..(Len(chTrace) - 1) : chTrace[i].ok \/ i = Len(chTrace) - 1

CompleteOrder ==
    <<"get_job", "get_compressed_file_info", "calculate_compression_stats",
      "cleanup_temp_files", "publish_success", "invoke_logger_completion",
      "publish_handler_error">>

IsStatus(status) == chJobInfo # None /\ chJobInfo.status = status

\* C9: for a COMPLETE event the calls occur in the order job lookup, output
\* sizes, compression statistics, cleanup, success notification, Metadata
\* Logger with a "completion" envelope; the notification is published before
\* the Logger is called, and the Logger is not called when cleanup or the
\* publish failed.
C9_CompleteOrder ==
    IsStatus("COMPLETE") =>
        /\ FollowsOrder(CompleteOrder, {"get_compressed_file_info"}, {"get_compressed_file_info"})
        /\ "calculate_compression_stats" \in TraceCalls =>
             Len(chResult.compressed_files) = Len(OutputFiles(chJob.Settings.OutputGroups))
        /\ mlEvent # None =>
             /\ mlEvent = completion_envelope(chJobInfo, chResult)
             /\ SucceededBefore("cleanup_temp_files", Len(chTrace))
             /\ SucceededBefore("publish_success", Len(chTrace))
             /\ chTrace[Len(chTrace)].call = "invoke_logger_completion"

C9_Witness ==
    /\ IsStatus("COMPLETE")
    /\ Returned
    /\ mlEvent # None
    /\ [i \in 1..Len(chTrace) |-> chTrace[i].call] =
         <<"get_job", "get_compressed_file_info", "calculate_compression_stats",
           "cleanup_temp_files", "publish_success", "invoke_logger_completion">>

FailedOrder == <<"get_job", "publish_failure", "invoke_logger_failure", "publish_handler_error">>

\* what holds of every ERROR event: one lookup at most, the failure path
\* only, in order, and a "failure" envelope with the job's error code and
\* message or their defaults
ErrorPath ==
    /\ FollowsOrder(FailedOrder, {}, {})
    /\ mlEvent # None =>
         /\ mlEvent["type"] = "failure"
         /\ mlEvent.failure_info.job_id = chJobInfo.job_id
         /\ mlEvent.failure_info.error_code =
              (IF "ErrorCode" \in DOMAIN chJob THEN chJob.ErrorCode ELSE "UNKNOWN")
         /\ mlEvent.failure_info.error_message =
              (IF "ErrorMessage" \in DOMAIN chJob THEN chJob.ErrorMessage ELSE "Unknown error")
         /\ SucceededBefore("publish_failure", Len(chTrace))

FailurePathCompleted ==
    /\ SucceededBefore("publish_failure", Len(chTrace))
    /\ chTrace[Len(chTrace)] = Called("invoke_logger_failure", TRUE)
    /\ mlEvent # None

\* C10 as stated: every ERROR event ends with the failure notification
\* published, the Logger called with the failure envelope, and statusCode 200.
C10_ErrorEventsReturn200 ==
    IsStatus("ERROR") =>
        /\ ErrorPath
        /\ Returned =>
             /\ FailurePathCompleted
             /\ chOutcome.response.statusCode = 200

\* C10 amended: an ERROR event ends that way when none of its calls raises;
\* when one raises, the steps after it are skipped and the statusCode is 500.
C10_ErrorPath ==
    IsStatus("ERROR") =>
        /\ ErrorPath
        /\ Returned =>
             IF FailedCalls = {} /\ chErr = ""
             THEN /\ FailurePathCompleted
                  /\ chOutcome.response = failed_response(chJobInfo)
             ELSE /\ chOutcome.response.statusCode = 500
                  /\ mlEvent = None

C10_Witness ==
    /\ IsStatus("ERROR")
    /\ Returned
    /\ chOutcome.response.statusCode = 200
    /\ "ErrorCode" \notin DOMAIN chJob
    /\ mlEvent.failure_info.error_code = "UNKNOWN"
    /\ mlEvent.failure_info.error_message = "Unknown error"


\* C6: find_record_by_job_id and delete_record never raise: a failed request
\* makes find return None and delete return False; find returns None too
\* when no record has the job id and otherwise the id of the first match;
\* update_record raises whenever its request fails.
C6_AuxiliarySentinels ==
    /\ last.op = "find" =>
        /\ ~last.raised
        /\ IF last.http = "ok" /\ MatchingIndices(store, last.job_id) # {}
           THEN \E i \in MatchingIndices(store, last.job_id) :
                    /\ \A k \in MatchingIndices(store, last.job_id) : i <= k
                    /\ last.found = Str(store[i].id)
           ELSE last.found = None
    /\ last.op = "delete" =>
        /\ ~last.raised
        /\ last.deleted =
             Bool(last.http = "ok" /\ last.record_id \in RecordIds(last.before))
        /\ last.deleted = Bool(TRUE) => last.record_id \notin RecordIds(store)
        /\ last.deleted = Bool(FALSE) => store = last.before
    /\ last.op = "update" =>
        /\ last.raised <=> (last.http = "error" \/ last.record_id \notin RecordIds(last.before))
        /\ last.raised => store = last.before

C6_Witness ==
    /\ last.op = "find"
    /\ last.http = "error"
    /\ MatchingIndices(store, last.job_id) # {}
    /\ last.found = None

CompletionLogged ==
    /\ Get(mlEvent, "type", "completion") = "completion"
    /\ mlRequests # <<>>

NoCompressedFiles == mlEvent.result.compressed_files = <<>>

\* C7 as stated: a completion envelope without compressed files is logged
\* with "Compressed Size (MB)" 0, "Compressed URL" "" and no "Compression
\* Ratio" field, whatever its compression_stats holds.
C7_NoFilesNoRatio ==
    (CompletionLogged /\ NoCompressedFiles) =>
        /\ mlRequests[1].body["Compressed Size (MB)"] = 0
        /\ mlRequests[1].body["Compressed URL"] = ""
        /\ "Compression Ratio" \notin DOMAIN mlRequests[1].body

\* C7 amended: the size is 0 and the URL empty, and the "Compression Ratio"
\* field is written exactly when compression_stats carries a
\* compression_ratio above 0, holding that ratio rounded to 2 decimals.
C7_NoFilesRatioFromStats ==
    (CompletionLogged /\ NoCompressedFiles) =>
        LET stats == mlEvent.result.compression_stats
            positive == "compression_ratio" \in DOMAIN stats /\ stats["compression_ratio"][1] > 0
            body == mlRequests[1].body
        IN  /\ body["Compressed Size (MB)"] = 0
            /\ body["Compressed URL"] = ""
            /\ "Compression Ratio" \in DOMAIN body <=> positive
            /\ positive =>
                 body["Compression Ratio"] = RoundRatio(stats["compression_ratio"])

C7_Witness ==
    /\ CompletionLogged
    /\ NoCompressedFiles
    /\ mlEvent.result.compression_stats = ("compression_ratio" :> <<3, 5>>)
    /\ mlRequests[1].body["Compressed Size (MB)"] = 0
    /\ mlRequests[1].body["Compression Ratio"] = 60

FailureLogged ==
    /\ Get(mlEvent, "type", "completion") = "failure"
    /\ mlRequests # <<>>

\* C8: a failure envelope is logged with Status "Failed", "Job ID" the
\* failure's job id and "Error Message" the error code, a colon, one space
\* and the error message; the record has no compressed-size, compressed-URL
\* or compression-ratio field.
C8_FailureRecord ==
    FailureLogged =>
        LET body == mlRequests[1].body
            info == mlEvent.failure_info
        IN  /\ body["Status"] = "Failed"
            /\ body["Job ID"] = info.job_id
            /\ body["Error Message"] = info.error_code \o ": " \o info.error_message
            /\ (info.error_code = "1010" /\ info.error_message = "Unsupported codec") =>
                 body["Error Message"] = "1010: Unsupported codec"
            /\ DOMAIN body \cap
                 {"Compressed Size (MB)", "Compressed URL", "Compression Ratio"} = {}

C8_Witness ==
    /\ FailureLogged
    /\ mlResponse.statusCode = 200
    /\ mlEvent.failure_info.error_code = "1010"
    /\ store[Len(store)].fields["Error Message"] = "1010: Unsupported codec"

====
